---- MODULE Spec2Model ----
(***************************************************************************)
(* A model of the columnation crate (src/src/lib.rs): memory::Region,      *)
(* StableRegion and ColumnStack.                                           *)
(*                                                                         *)
(* A buffer's contents are kept run-length encoded: a run [v, n] stands    *)
(* for n consecutive elements equal to v.  This keeps the program's real   *)
(* constants (a 2 MiB mmap threshold, 4 KiB pages) within reach of an      *)
(* explicit-state check.                                                   *)
(***************************************************************************)
EXTENDS Integers, Sequences, FiniteSets, TLC

(***************************************************************************)
(* Program constants.                                                      *)
(***************************************************************************)
\* memory::Region::MMAP_SIZE = 2 << 20
MMAP_SIZE == 2097152
\* the 0x1000 of memory::Region::new_mmap
PAGE_SIZE == 4096
\* StableRegion::default(): limit: 2 << 20
DEFAULT_LIMIT == 2097152
\* memory::LOCAL_BUFFER
LOCAL_BUFFER == 32
\* GlobalStealer::new: one injector per size class, for _ in 0..32
NumInjectors == 32
\* GlobalStealer::try_refill: unwrap_or(32 << 20), the length the first
\* mapping doubles
FirstMapping == 33554432
\* std::mem::size_of::<u8>()
SizeOfU8 == 1
\* std::mem::size_of::<String>() and size_of::<Vec<_>>() on a 64-bit target
SizeOfString == 24
SizeOfVec == 24
SizeOfItem == 48
\* alloc::raw_vec::MIN_NON_ZERO_CAP for elements of at most 1024 bytes,
\* as used by the growth of the surface Vec in self.local.push / reserve
MinNonZeroCap == 4

(***************************************************************************)
(* Bounds of the model.                                                    *)
(***************************************************************************)
\* operations performed on a StableRegion in one behaviour
MaxSROps == 3
\* operations performed on the ColumnStacks in one behaviour
MaxOps == 3
\* records handed to one reserve_items call
MaxItems == 1
\* calls (new_auto, drop, send, thread exit) made on the pool in one behaviour
MaxPoolOps == 3

(***************************************************************************)
(* Arithmetic helpers.                                                     *)
(***************************************************************************)
Min(a, b) == IF a <= b THEN a ELSE b

Max(a, b) == IF a >= b THEN a ELSE b

RECURSIVE PowerOfTwoFrom(_, _)
PowerOfTwoFrom(p, x) == IF p >= x THEN p ELSE PowerOfTwoFrom(2 * p, x)

\* usize::next_power_of_two: the smallest power of two >= x (1 for x = 0)
NextPowerOfTwo(x) == PowerOfTwoFrom(1, x)

(***************************************************************************)
(* Run-length encoded contents.                                            *)
(***************************************************************************)
Run(v, n) == [v |-> v, n |-> n]

RECURSIVE RLen(_)
\* the number of elements a run list stands for
RLen(runs) == IF runs = <<>> THEN 0 ELSE Head(runs).n + RLen(Tail(runs))

RECURSIVE Normalize(_)
\* canonical form: no empty run, no two adjacent runs of the same value
Normalize(runs) ==
    IF runs = <<>> THEN <<>>
    ELSE LET h == Head(runs)
             t == Normalize(Tail(runs))
         IN IF h.n = 0 THEN t
            ELSE IF t # <<>> /\ Head(t).v = h.v
                 THEN <<Run(h.v, h.n + Head(t).n)>> \o Tail(t)
                 ELSE <<h>> \o t

RECURSIVE Slice(_, _, _)
\* the elements [off, off + len) of a run list
Slice(runs, off, len) ==
    IF len = 0 \/ runs = <<>> THEN <<>>
    ELSE LET h == Head(runs)
         IN IF off >= h.n THEN Slice(Tail(runs), off - h.n, len)
            ELSE LET take == Min(h.n - off, len)
                 IN <<Run(h.v, take)>> \o Slice(Tail(runs), 0, len - take)

(***************************************************************************)
(* memory::Region<T>: Nil, Heap(Vec<T>) or MMap(Vec<T>, Option<Mem>).      *)
(*   id   the address of the vector's allocation                           *)
(*   cap  the vector's capacity, data its elements                         *)
(*   mem  the byte length of the mapped chunk behind an MMap region        *)
(***************************************************************************)
new_nil == [kind |-> "Nil", id |-> 0, cap |-> 0, data |-> <<>>, mem |-> 0]

new_heap(capacity, id) ==
    [kind |-> "Heap", id |-> id, cap |-> capacity, data |-> <<>>, mem |-> 0]

\* Option<Region<T>>: <<region>> for Some, <<>> when the pool hands out nothing
new_mmap(size, capacity, id, poolOk) ==
    LET byte_len0 == Min(PAGE_SIZE, size * capacity)
        byte_len == NextPowerOfTwo(byte_len0)
        actual_capacity == byte_len \div size
    IN IF poolOk
       THEN << [kind |-> "MMap", id |-> id, cap |-> actual_capacity,
                data |-> <<>>, mem |-> byte_len] >>
       ELSE <<>>

new_auto(size, capacity, id, poolOk) ==
    IF size = 0 THEN new_heap(capacity, id)
    ELSE LET bytes == size * capacity
         IN CASE bytes = 0 -> new_nil
              [] bytes = MMAP_SIZE ->
                    LET m == new_mmap(size, capacity, id, poolOk)
                    IN IF m # <<>> THEN m[1] ELSE new_heap(capacity, id)
              [] OTHER -> new_heap(capacity, id)

capacity(r) == IF r.kind = "Nil" THEN 0 ELSE r.cap

len(r) == IF r.kind = "Nil" THEN 0 ELSE RLen(r.data)

is_empty(r) == len(r) = 0

\* memory::Region::clear: vec.set_len(0)
region_clear(r) == IF r.kind = "Nil" THEN r ELSE [r EXCEPT !.data = <<>>]

(***************************************************************************)
(* Vec::extend / Vec::extend_from_slice on the vector of a region.         *)
(* Result: [r, status, next].  status is "ok", "panic" (as_mut on Nil) or  *)
(* "abort".  A vector that must grow is reallocated by the global          *)
(* allocator: for a Heap vector that moves it to a new address; for an     *)
(* MMap vector the pointer was never the allocator's, which is undefined   *)
(* behaviour, resolved by `ub`: the process dies ("abort") or the          *)
(* allocator hands back a block elsewhere ("moved").                       *)
(***************************************************************************)
UBOutcomes == {"abort", "moved"}

\* an extend that writes past the capacity without growing the vector
extend_unchecked(r, runs, id, ub) ==
    IF r.kind = "Nil"
    THEN [r |-> r, status |-> "panic", next |-> id]
    ELSE [r |-> [r EXCEPT !.data = Normalize(r.data \o runs)],
          status |-> "ok", next |-> id]

extend(r, runs, id, ub) ==
    LET n == RLen(runs)
        grown == [r EXCEPT !.id = id,
                           !.cap = Max(2 * r.cap, len(r) + n),
                           !.data = Normalize(r.data \o runs)]
    IN IF r.kind = "Nil"
       THEN [r |-> r, status |-> "panic", next |-> id]
       ELSE IF len(r) + n <= r.cap
       THEN [r |-> [r EXCEPT !.data = Normalize(r.data \o runs)],
             status |-> "ok", next |-> id]
       ELSE IF r.kind = "Heap" \/ ub = "moved"
       THEN [r |-> grown, status |-> "ok", next |-> id + 1]
       ELSE [r |-> r, status |-> "abort", next |-> id]

\* the capacity of a Vec of capacity cap and length `length` after
\* Vec::reserve(additional)
Vec_reserve(cap, length, additional) ==
    IF cap - length < additional
    THEN Max(MinNonZeroCap, Max(2 * cap, length + additional))
    ELSE cap

(***************************************************************************)
(* StableRegion<T>: [local, stash, stash_cap, limit], stash_cap being the    *)
(* capacity of the stash vector.                                          *)
(***************************************************************************)
StableRegion_default ==
    [local |-> new_nil, stash |-> <<>>, stash_cap |-> 0, limit |-> DEFAULT_LIMIT]

with_limit(limit) ==
    [local |-> new_nil, stash |-> <<>>, stash_cap |-> 0, limit |-> limit]

\* whether reserve(count) allocates
must_grow(sr, count) == count > capacity(sr.local) - len(sr.local)

\* a reserve that frees the buffer it replaces and allocates just count
reserve_discarding(sr, size, count, id, poolOk) ==
    IF must_grow(sr, count)
    THEN [sr EXCEPT !.local = new_auto(size, count, id, poolOk)]
    ELSE sr

\* a reserve that stashes the buffer it replaces even when it is empty
reserve_stashing(sr, size, count, id, poolOk) ==
    IF must_grow(sr, count)
    THEN [sr EXCEPT !.local = new_auto(size, Max(count,
                                 Min(NextPowerOfTwo(capacity(sr.local) + 1), sr.limit)),
                                 id, poolOk),
                    !.stash = Append(sr.stash, sr.local),
                    !.stash_cap = Max(sr.stash_cap, Len(sr.stash) + 1)]
    ELSE sr

\* StableRegion::reserve
reserve(sr, size, count, id, poolOk) ==
    IF must_grow(sr, count)
    THEN LET next_len0 == NextPowerOfTwo(capacity(sr.local) + 1)
             next_len1 == Min(next_len0, sr.limit)
             next_len == Max(count, next_len1)
             new_local == new_auto(size, next_len, id, poolOk)
         IN IF is_empty(sr.local)
            THEN [sr EXCEPT !.local = new_local]
            ELSE [sr EXCEPT !.local = new_local,
                            !.stash = Append(sr.stash, sr.local),
                            !.stash_cap = IF Len(sr.stash) = sr.stash_cap
                                          THEN Vec_reserve(sr.stash_cap, Len(sr.stash), 1)
                                          ELSE sr.stash_cap]
    ELSE sr

\* the allocation counter after reserve(count)
reserve_next(sr, count, id) == IF must_grow(sr, count) THEN id + 1 ELSE id

\* a copy that hands out the start of the active buffer, not the start of
\* what it wrote
copy_slice_from_start(sr, size, runs, id, poolOk, ub) ==
    LET reserved == reserve(sr, size, RLen(runs), id, poolOk)
        e == extend(reserved.local, runs, reserve_next(sr, RLen(runs), id), ub)
    IN [sr |-> [reserved EXCEPT !.local = e.r],
        status |-> e.status,
        next |-> e.next,
        ptr |-> [id |-> e.r.id, off |-> 0]]

\* StableRegion::copy_iter and copy_slice: reserve, extend, and the slice of
\* what was written, as [sr, status, next, ptr]; ptr = [id, off] is the
\* address of the returned slice.
copy_slice(sr, size, runs, id, poolOk, ub) ==
    LET reserved == reserve(sr, size, RLen(runs), id, poolOk)
        initial_len == len(reserved.local)
        e == extend(reserved.local, runs, reserve_next(sr, RLen(runs), id), ub)
    IN [sr |-> [reserved EXCEPT !.local = e.r],
        status |-> e.status,
        next |-> e.next,
        ptr |-> [id |-> e.r.id, off |-> initial_len]]

\* a clear that releases the active buffer with the stash
StableRegion_clear_releasing(sr) == [sr EXCEPT !.local = new_nil, !.stash = <<>>]

\* StableRegion::clear: local.clear(), then stash.clear()
StableRegion_clear(sr) == [sr EXCEPT !.local = region_clear(sr.local), !.stash = <<>>]

RECURSIVE SumLen(_)
SumLen(stash) == IF stash = <<>> THEN 0 ELSE len(Head(stash)) + SumLen(Tail(stash))

\* StableRegion::len
StableRegion_len(sr) == len(sr.local) + SumLen(sr.stash)

\* every buffer of a region, the stash first
Buffers(sr) == sr.stash \o (IF sr.local.kind = "Nil" THEN <<>> ELSE <<sr.local>>)

\* StableRegion::heap_size: the (used, capacity) pairs handed to the
\* callback, in bytes and in call order
StableRegion_heap_size(sr, size) ==
    << <<len(sr.local) * size, capacity(sr.local) * size>>,
       <<Len(sr.stash) * SizeOfVec, sr.stash_cap * SizeOfVec>> >>
    \o [i \in 1 .. Len(sr.stash) |->
           <<len(sr.stash[i]) * size, capacity(sr.stash[i]) * size>>]

(***************************************************************************)
(* Regions of ColumnStack<(Option<String>, Vec<String>)>.                  *)
(*                                                                         *)
(* An item is [a, b]: a is <<>> (None) or <<s>> (Some(s)), b a sequence of *)
(* strings, a string being a normalized run list of characters.  A String  *)
(* or Vec replica is [ptr, len, cap] with ptr = [id, off] an address in an *)
(* arena buffer.  The inner region is                                      *)
(*   [regionA |-> StableRegion<u8>,                 OptionRegion<StringStack> *)
(*    regionB |-> [region |-> StableRegion<String>, VecRegion<String>      *)
(*                 inner  |-> StableRegion<u8>]]    its StringStack        *)
(* Every copy returns [.., status, next] as extend does.                   *)
(***************************************************************************)
from_raw_parts(ptr, length, cap) == [ptr |-> ptr, len |-> length, cap |-> cap]

\* a replica that keeps spare capacity, as an owned String would
StringStack_replica_spare(bytes, length) ==
    [region |-> bytes.sr, status |-> bytes.status, next |-> bytes.next,
     rep |-> from_raw_parts(bytes.ptr, length, Max(length, MinNonZeroCap))]

\* String::from_raw_parts(bytes.as_mut_ptr(), item.len(), item.len())
StringStack_replica(bytes, length) ==
    [region |-> bytes.sr, status |-> bytes.status, next |-> bytes.next,
     rep |-> from_raw_parts(bytes.ptr, length, length)]

\* StringStack::copy
StringStack_copy(region, item, id, poolOk, ub) ==
    StringStack_replica(copy_slice(region, SizeOfU8, item, id, poolOk, ub), RLen(item))

RECURSIVE SumOfLengths(_)
\* items.map(|x| x.len()).sum()
SumOfLengths(items) ==
    IF items = <<>> THEN 0 ELSE RLen(Head(items)) + SumOfLengths(Tail(items))

\* StringStack::reserve_items
StringStack_reserve_items(region, items, id, poolOk) ==
    [region |-> reserve(region, SizeOfU8, SumOfLengths(items), id, poolOk),
     next |-> reserve_next(region, SumOfLengths(items), id)]

\* Some(self.region.copy(inner))
OptionRegion_some(c) ==
    [region |-> c.region, status |-> c.status, next |-> c.next, rep |-> <<c.rep>>]

\* OptionRegion::copy
OptionRegion_copy(region, item, id, poolOk, ub) ==
    IF item = <<>>
    THEN [region |-> region, status |-> "ok", next |-> id, rep |-> <<>>]
    ELSE OptionRegion_some(StringStack_copy(region, item[1], id, poolOk, ub))

RECURSIVE Flatten(_)
\* flat_map over a sequence of sequences
Flatten(xs) == IF xs = <<>> THEN <<>> ELSE Head(xs) \o Flatten(Tail(xs))

\* OptionRegion::reserve_items
OptionRegion_reserve_items(region, items, id, poolOk) ==
    StringStack_reserve_items(region, Flatten(items), id, poolOk)

RECURSIVE CopyElements(_, _, _, _, _)
RECURSIVE CopyRest(_, _, _, _)
\* item.iter().map(|element| inner.copy(element)), pulled until one copy
\* does not return; reps are the replicas produced
CopyElements(inner, elements, id, poolOk, ub) ==
    IF elements = <<>>
    THEN [region |-> inner, status |-> "ok", next |-> id, reps |-> <<>>]
    ELSE CopyRest(StringStack_copy(inner, Head(elements), id, poolOk, ub),
                  Tail(elements), poolOk, ub)

\* the elements after one whose copy gave c
CopyRest(c, rest, poolOk, ub) ==
    IF c.status # "ok"
    THEN [region |-> c.region, status |-> c.status, next |-> c.next, reps |-> <<>>]
    ELSE [CopyElements(c.region, rest, c.next, poolOk, ub) EXCEPT
             !.reps = <<c.rep>> \o @]

\* Vec::from_raw_parts(slice.as_mut_ptr(), item.len(), item.len()) over what
\* the extend e wrote
VecRegion_replica(reserved, length, elems, e) ==
    [vr |-> [region |-> [reserved EXCEPT !.local = e.r], inner |-> elems.region],
     status |-> IF elems.status # "ok" THEN elems.status ELSE e.status,
     next |-> e.next,
     rep |-> from_raw_parts([id |-> e.r.id, off |-> len(reserved.local)],
                            length, length)]

\* self.local.extend(items) of copy_iter, items being the replicas elems
VecRegion_extend(reserved, length, elems, ub) ==
    VecRegion_replica(reserved, length, elems,
        extend(reserved.local,
               [i \in 1 .. Len(elems.reps) |-> Run(elems.reps[i], 1)],
               elems.next, ub))

\* copy_iter after its reserve: extend goes through as_mut first, then pulls
\* the elements
VecRegion_copy_iter(vr, item, reserved, id, poolOk, ub) ==
    IF reserved.local.kind = "Nil"
    THEN [vr |-> vr, status |-> "panic", next |-> id,
          rep |-> from_raw_parts([id |-> 0, off |-> 0], 0, 0)]
    ELSE VecRegion_extend(reserved, Len(item),
                          CopyElements(vr.inner, item, id, poolOk, ub), ub)

\* VecRegion::copy: region.copy_iter over the lazily copied elements
VecRegion_copy(vr, item, id, poolOk, ub) ==
    VecRegion_copy_iter(vr, item,
        reserve(vr.region, SizeOfString, Len(item), id, poolOk),
        reserve_next(vr.region, Len(item), id), poolOk, ub)

\* self.inner.reserve_items of VecRegion::reserve_items, region being the
\* reserved StableRegion<T>
VecRegion_reserve_inner(region, inner) ==
    [vr |-> [region |-> region, inner |-> inner.region], next |-> inner.next]

\* VecRegion::reserve_items
VecRegion_reserve_items(vr, items, id, poolOk) ==
    VecRegion_reserve_inner(
        reserve(vr.region, SizeOfString, Len(items), id, poolOk),
        StringStack_reserve_items(vr.inner, Flatten(items),
            reserve_next(vr.region, Len(items), id), poolOk))

\* VecRegion::clear
VecRegion_clear(vr) ==
    [region |-> StableRegion_clear(vr.region), inner |-> StableRegion_clear(vr.inner)]

TupleABRegion_default ==
    [regionA |-> StableRegion_default,
     regionB |-> [region |-> StableRegion_default, inner |-> StableRegion_default]]

\* The tuple expression of copy with both components evaluated.  When the
\* second copy unwinds, the first replica is a temporary and is dropped as an
\* owned value: `dropped` counts the String destructors that runs.
TupleABRegion_tuple(a, b) ==
    [inner |-> [regionA |-> a.region, regionB |-> b.vr],
     status |-> b.status,
     next |-> b.next,
     rep |-> IF b.status = "ok" THEN <<[a |-> a.rep, b |-> b.rep]>> ELSE <<>>,
     dropped |-> IF b.status = "panic" THEN Len(a.rep) ELSE 0]

\* the second component of the tuple expression, a being the first
TupleABRegion_second(inner, a, rB, poolOk, ub) ==
    IF a.status # "ok"
    THEN [inner |-> [inner EXCEPT !.regionA = a.region], status |-> a.status,
          next |-> a.next, rep |-> <<>>, dropped |-> 0]
    ELSE TupleABRegion_tuple(a, VecRegion_copy(inner.regionB, rB, a.next, poolOk, ub))

\* a copy_destructured that copies the second component before the first
TupleABRegion_copy_destructured_reversed(inner, rA, rB, id, poolOk, ub) ==
    LET b == VecRegion_copy(inner.regionB, rB, id, poolOk, ub)
        a == OptionRegion_copy(inner.regionA, rA, b.next, poolOk, ub)
    IN IF b.status # "ok"
       THEN [inner |-> [inner EXCEPT !.regionB = b.vr], status |-> b.status,
             next |-> b.next, rep |-> <<>>, dropped |-> 0]
       ELSE [inner |-> [regionA |-> a.region, regionB |-> b.vr],
             status |-> a.status,
             next |-> a.next,
             rep |-> IF a.status = "ok" THEN <<[a |-> a.rep, b |-> b.rep]>> ELSE <<>>,
             dropped |-> IF a.status = "panic" THEN 1 ELSE 0]

\* TupleABRegion::copy_destructured
TupleABRegion_copy_destructured(inner, rA, rB, id, poolOk, ub) ==
    TupleABRegion_second(inner, OptionRegion_copy(inner.regionA, rA, id, poolOk, ub),
                         rB, poolOk, ub)

\* TupleABRegion::copy
TupleABRegion_copy(inner, item, id, poolOk, ub) ==
    TupleABRegion_second(inner,
                         OptionRegion_copy(inner.regionA, item.a, id, poolOk, ub),
                         item.b, poolOk, ub)

\* the second pass of TupleABRegion::reserve_items, a being the first
TupleABRegion_reserve_second(inner, a, itemsB, poolOk) ==
    [VecRegion_reserve_items(inner.regionB, itemsB, a.next, poolOk) EXCEPT
        !.vr = [regionA |-> a.region, regionB |-> @]]

\* TupleABRegion::reserve_items: one pass per component; the result is
\* [vr |-> the tuple region, next]
TupleABRegion_reserve_items(inner, items, id, poolOk) ==
    TupleABRegion_reserve_second(inner,
        OptionRegion_reserve_items(inner.regionA,
            [i \in 1 .. Len(items) |-> items[i].a], id, poolOk),
        [i \in 1 .. Len(items) |-> items[i].b], poolOk)

RECURSIVE SumSeq(_)
\* .sum() over a sequence of counts
SumSeq(counts) == IF counts = <<>> THEN 0 ELSE Head(counts) + SumSeq(Tail(counts))

\* regions.map(|r| r.region.len()).sum() over StableRegions
SumRegionLen(regions) ==
    SumSeq([i \in 1 .. Len(regions) |-> StableRegion_len(regions[i])])

\* StringStack::reserve_regions, regions being the others' StableRegion<u8>
StringStack_reserve_regions(region, regions, id, poolOk) ==
    [region |-> reserve(region, SizeOfU8, SumRegionLen(regions), id, poolOk),
     next |-> reserve_next(region, SumRegionLen(regions), id)]

\* OptionRegion::reserve_regions
OptionRegion_reserve_regions(region, regions, id, poolOk) ==
    StringStack_reserve_regions(region, regions, id, poolOk)

\* VecRegion::reserve_regions, regions being the others' VecRegions
VecRegion_reserve_regions(vr, regions, id, poolOk) ==
    VecRegion_reserve_inner(
        reserve(vr.region, SizeOfString,
                SumRegionLen([i \in 1 .. Len(regions) |-> regions[i].region]),
                id, poolOk),
        StringStack_reserve_regions(vr.inner,
            [i \in 1 .. Len(regions) |-> regions[i].inner],
            reserve_next(vr.region,
                SumRegionLen([i \in 1 .. Len(regions) |-> regions[i].region]), id),
            poolOk))

\* the second pass of TupleABRegion::reserve_regions, a being the first
TupleABRegion_reserve_regions_second(inner, a, regionsB, poolOk) ==
    [VecRegion_reserve_regions(inner.regionB, regionsB, a.next, poolOk) EXCEPT
        !.vr = [regionA |-> a.region, regionB |-> @]]

\* TupleABRegion::reserve_regions: one pass per component
TupleABRegion_reserve_regions(inner, regions, id, poolOk) ==
    TupleABRegion_reserve_regions_second(inner,
        OptionRegion_reserve_regions(inner.regionA,
            [i \in 1 .. Len(regions) |-> regions[i].regionA], id, poolOk),
        [i \in 1 .. Len(regions) |-> regions[i].regionB], poolOk)

(***************************************************************************)
(* Reading a replica back through its pointers (what `&stack[i]` shows).   *)
(***************************************************************************)
\* what a read through a pointer into no live buffer stands for
Dangling == <<Run("dangling", 0)>>

BufferAt(sr, ptr, length) ==
    SelectSeq(Buffers(sr), LAMBDA b : b.id = ptr.id /\ ptr.off + length <= len(b))

ReadString(sr, rep) ==
    IF rep.len = 0 THEN <<>>
    ELSE LET bs == BufferAt(sr, rep.ptr, rep.len)
         IN IF bs = <<>> THEN Dangling
            ELSE Normalize(Slice(bs[1].data, rep.ptr.off, rep.len))

RECURSIVE Expand(_)
\* the elements a run list stands for, one by one
Expand(runs) ==
    IF runs = <<>> THEN <<>>
    ELSE IF Head(runs).n = 0 THEN Expand(Tail(runs))
    ELSE <<Head(runs).v>>
            \o Expand(<<Run(Head(runs).v, Head(runs).n - 1)>> \o Tail(runs))

ReadVec(vr, rep) ==
    IF rep.len = 0 THEN <<>>
    ELSE LET bs == BufferAt(vr.region, rep.ptr, rep.len)
         IN IF bs = <<>> THEN <<Dangling>>
            ELSE LET reps == Expand(Slice(bs[1].data, rep.ptr.off, rep.len))
                 IN [i \in 1 .. Len(reps) |-> ReadString(vr.inner, reps[i])]

ReadItem(inner, rep) ==
    [a |-> IF rep.a = <<>> THEN <<>> ELSE <<ReadString(inner.regionA, rep.a[1])>>,
     b |-> ReadVec(inner.regionB, rep.b)]

(***************************************************************************)
(* ColumnStack<T>: [live, local, cap, inner]; local is the surface vector  *)
(* of replicas and cap its capacity.                                       *)
(***************************************************************************)
ColumnStack_default ==
    [live |-> TRUE, local |-> <<>>, cap |-> 0, inner |-> TupleABRegion_default]

\* a stack that is not constructed, or was dropped
NoStack ==
    [live |-> FALSE, local |-> <<>>, cap |-> 0, inner |-> TupleABRegion_default]

\* Deref for ColumnStack: &self.local[..], read element by element
View(stack) == [i \in 1 .. Len(stack.local) |-> ReadItem(stack.inner, stack.local[i])]

\* self.local.push(replica)
Vec_push(stack, rep) ==
    [stack EXCEPT !.local = Append(stack.local, rep),
                  !.cap = IF Len(stack.local) = stack.cap
                          THEN Vec_reserve(stack.cap, Len(stack.local), 1)
                          ELSE stack.cap]

\* self.local.push(c) for the replica of the inner copy c, when it returned
ColumnStack_push(stack, c) ==
    [stack |-> IF c.status = "ok"
               THEN Vec_push([stack EXCEPT !.inner = c.inner], c.rep[1])
               ELSE [stack EXCEPT !.inner = c.inner],
     status |-> c.status, next |-> c.next, dropped |-> c.dropped]

\* ColumnStack::copy
ColumnStack_copy(stack, item, id, poolOk, ub) ==
    ColumnStack_push(stack, TupleABRegion_copy(stack.inner, item, id, poolOk, ub))

\* ColumnStack::copy_destructured
ColumnStack_copy_destructured(stack, rA, rB, id, poolOk, ub) ==
    ColumnStack_push(stack,
        TupleABRegion_copy_destructured(stack.inner, rA, rB, id, poolOk, ub))

\* the stack after self.local.reserve(count) and the inner reserve_items r
ColumnStack_reserved(stack, count, r) ==
    [stack |-> [stack EXCEPT !.cap = Vec_reserve(stack.cap, Len(stack.local), count),
                             !.inner = r.vr],
     next |-> r.next]

\* ColumnStack::reserve_items
ColumnStack_reserve_items(stack, items, id, poolOk) ==
    ColumnStack_reserved(stack, Len(items),
        TupleABRegion_reserve_items(stack.inner, items, id, poolOk))

\* ColumnStack::heap_size: the surface vector, then the tuple region's
\* components in order; a VecRegion reports its inner region first
ColumnStack_heap_size(stack) ==
    << <<Len(stack.local) * SizeOfItem, stack.cap * SizeOfItem>> >>
    \o StableRegion_heap_size(stack.inner.regionA, SizeOfU8)
    \o StableRegion_heap_size(stack.inner.regionB.inner, SizeOfU8)
    \o StableRegion_heap_size(stack.inner.regionB.region, SizeOfString)

\* length += len; capacity += cap over the pairs handed to the callback
SumCallbacks(pairs) ==
    <<SumSeq([i \in 1 .. Len(pairs) |-> pairs[i][1]]),
      SumSeq([i \in 1 .. Len(pairs) |-> pairs[i][2]])>>

\* ColumnStack::summed_heap_size, as <<length, capacity>>
summed_heap_size(stack) == SumCallbacks(ColumnStack_heap_size(stack))

\* ColumnStack::reserve_regions, regions being the other stacks
ColumnStack_reserve_regions(stack, regions, id, poolOk) ==
    ColumnStack_reserved(stack,
        SumSeq([i \in 1 .. Len(regions) |-> Len(regions[i].local)]),
        TupleABRegion_reserve_regions(stack.inner,
            [i \in 1 .. Len(regions) |-> regions[i].inner], id, poolOk))

RECURSIVE RetainLoop(_, _, _, _)
\* the loop of retain_from over position .. len, 1-based; keep is the set of
\* positions whose element the predicate accepts
RetainLoop(local, position, write_position, keep) ==
    IF position > Len(local) THEN SubSeq(local, 1, write_position - 1)
    ELSE IF position \in keep
    THEN RetainLoop([local EXCEPT ![position] = local[write_position],
                                  ![write_position] = local[position]],
                    position + 1, write_position + 1, keep)
    ELSE RetainLoop(local, position + 1, write_position, keep)

\* a retain_from that truncates at index without asking the predicate
retain_from_truncating(stack, index, keep) ==
    [stack EXCEPT !.local = SubSeq(stack.local, 1, Min(index, Len(stack.local)))]

\* a retain_from that compacts: once it has dropped elements it resets the
\* buffers of the first inner region
retain_from_compacting(stack, index, keep) ==
    IF index < Len(stack.local)
    THEN [stack EXCEPT !.local = RetainLoop(stack.local, index + 1, index + 1, keep),
                       !.inner.regionA = StableRegion_clear(@)]
    ELSE stack

\* ColumnStack::retain_from(index, predicate), index 0-based as in the source
ColumnStack_retain_from(stack, index, keep) ==
    IF index < Len(stack.local)
    THEN [stack EXCEPT !.local = RetainLoop(stack.local, index + 1, index + 1, keep)]
    ELSE stack

\* a clear that does not reach the region inside the Vec region
clear_steps_skipping_inner == <<"local", "regionA", "regionB.region">>

\* a clear that resets the inner regions before the surface vector
clear_steps_inner_first == <<"regionA", "regionB.region", "regionB.inner", "local">>

\* ColumnStack::clear and Tuple / Vec / StableRegion clear below it, as the
\* sequence of steps the source takes
clear_steps == <<"local", "regionA", "regionB.region", "regionB.inner">>

\* one step of clear
ClearStep(stack, step) ==
    CASE step = "local" -> [stack EXCEPT !.local = <<>>]
      [] step = "regionA" ->
            [stack EXCEPT !.inner.regionA = StableRegion_clear(@)]
      [] step = "regionB.region" ->
            [stack EXCEPT !.inner.regionB.region = StableRegion_clear(@)]
      [] step = "regionB.inner" ->
            [stack EXCEPT !.inner.regionB.inner = StableRegion_clear(@)]

RECURSIVE ClearFrom(_, _)
ClearFrom(stack, k) ==
    IF k > Len(clear_steps) THEN stack
    ELSE ClearFrom(ClearStep(stack, clear_steps[k]), k + 1)

\* ColumnStack::clear, start to end
ColumnStack_clear(stack) == ClearFrom(stack, 1)

RECURSIVE CopyAll(_, _, _, _, _)
RECURSIVE CopyMore(_, _, _, _)
\* for item in items { self.copy(item) }, until one copy does not return
CopyAll(stack, items, id, poolOk, ub) ==
    IF items = <<>>
    THEN [stack |-> stack, status |-> "ok", next |-> id, dropped |-> 0]
    ELSE CopyMore(ColumnStack_copy(stack, Head(items), id, poolOk, ub),
                  Tail(items), poolOk, ub)

\* the items after one whose copy gave c
CopyMore(c, rest, poolOk, ub) ==
    IF c.status # "ok" THEN c ELSE CopyAll(c.stack, rest, c.next, poolOk, ub)

\* Clone::clone_from
ColumnStack_clone_from(stack, source, id, poolOk, ub) ==
    CopyAll(ColumnStack_clear(stack), View(source), id, poolOk, ub)

\* a clone that copies the surface vector and the regions as they are
ColumnStack_clone_shallow(source, id, poolOk, ub) ==
    [stack |-> source, status |-> "ok", next |-> id, dropped |-> 0]

\* Clone::clone
ColumnStack_clone(source, id, poolOk, ub) ==
    CopyAll(ColumnStack_default, View(source), id, poolOk, ub)

(***************************************************************************)
(* State.                                                                  *)
(*   sr, srNext, srStatus, srLast, srOps: one StableRegion<u8> driven      *)
(*   through its public methods (specification SpecSR):                    *)
(*     sr        the region                                                *)
(*     srNext    the next fresh allocation address                         *)
(*     srStatus  "ok", "panic" (the call unwound) or "abort"               *)
(*     srLast    the last call made, [op, n]                               *)
(*     srOps     the number of calls made                                  *)
(*   stacks, pc, status, nextId, dtor, last, ops, track: two ColumnStacks  *)
(*   (specification Spec):                                                 *)
(*     stacks    the stacks, by name                                       *)
(*     pc        the position inside a running clear or drop:              *)
(*               [op, s, k], op = "idle" when none runs                    *)
(*     status    "ok", "panic" (a call unwound; what remains is dropped)   *)
(*               or "abort" (the process died)                             *)
(*     nextId    the next fresh allocation address                         *)
(*     dtor      how many times the destructor of a replica has run        *)
(*     last      the last call made, [op, s, index, keep, items]           *)
(*     ops       the number of calls made                                  *)
(*     track     per stack, the items handed to copy since the stack was   *)
(*               constructed ("default") or last cleared ("cleared");      *)
(*               era "other" once another call shaped the contents         *)
(*   global, workers, owned, tpc, plast, poolOps: the pool of mapped       *)
(*   chunks and the threads using it (specification SpecPool):             *)
(*     global    INJECTOR: <<>> until initialised, then per size class the *)
(*               lengths of the mappings made (stash) and the injector     *)
(*               queue (GlobalStealer.injectors)                           *)
(*     workers   per thread, ThreadLocalStealer.size_class: the worker     *)
(*               queue of each LocalSizeClass                              *)
(*     owned     per thread, the memory::Regions it holds                  *)
(*     tpc       per thread, the position inside new_mmap's get            *)
(*     plast     the last call completed, [op, t, capacity, region, ...]   *)
(*     poolOps   the number of calls made                                  *)
(***************************************************************************)
VARIABLES sr, srNext, srStatus, srLast, srOps,
          stacks, pc, status, nextId, dtor, last, ops, track,
          global, workers, owned, tpc, plast, poolOps

srVars == <<sr, srNext, srStatus, srLast, srOps>>

csVars == <<stacks, pc, status, nextId, dtor, last, ops, track>>

poolVars == <<global, workers, owned, tpc, plast, poolOps>>

vars == <<sr, srNext, srStatus, srLast, srOps,
          stacks, pc, status, nextId, dtor, last, ops, track,
          global, workers, owned, tpc, plast, poolOps>>

(***************************************************************************)
(* Inputs of the StableRegion<u8> operations.                              *)
(***************************************************************************)
Counts == {0, 1, PAGE_SIZE, MMAP_SIZE \div 2, MMAP_SIZE}

Payloads ==
    { <<>>,
      <<Run("a", 1)>>,
      <<Run("a", 1), Run("b", 1)>>,
      <<Run("b", PAGE_SIZE)>>,
      <<Run("a", MMAP_SIZE \div 2)>>,
      <<Run("b", MMAP_SIZE)>> }

Limits == {4}

SRStart ==
    /\ sr = StableRegion_default
    /\ srNext = 1
    /\ srStatus = "ok"
    /\ srLast = [op |-> "default", n |-> 0]
    /\ srOps = 0

SRCanCall == srStatus = "ok" /\ srOps < MaxSROps

\* the state after a copy that gave c = [sr, status, next, ptr]
SRReturns(c) ==
    /\ sr' = c.sr
    /\ srNext' = c.next
    /\ srStatus' = c.status

\* StableRegion::with_limit(limit), in place of default()
SR_WithLimit(limit) ==
    /\ srStatus = "ok" /\ srOps = 0 /\ srLast.op = "default"
    /\ sr' = with_limit(limit)
    /\ srLast' = [op |-> "with_limit", n |-> limit]
    /\ UNCHANGED <<srNext, srStatus, srOps, csVars, poolVars>>

\* StableRegion::with_capacity(count), in place of default()
SR_WithCapacity(count, poolOk) ==
    /\ srStatus = "ok" /\ srOps = 0 /\ srLast.op = "default"
    /\ sr' = reserve(StableRegion_default, SizeOfU8, count, srNext, poolOk)
    /\ srNext' = reserve_next(StableRegion_default, count, srNext)
    /\ srLast' = [op |-> "with_capacity", n |-> count]
    /\ UNCHANGED <<srStatus, srOps, csVars, poolVars>>

SR_Reserve(count, poolOk) ==
    /\ SRCanCall
    /\ sr' = reserve(sr, SizeOfU8, count, srNext, poolOk)
    /\ srNext' = reserve_next(sr, count, srNext)
    /\ srLast' = [op |-> "reserve", n |-> count]
    /\ srOps' = srOps + 1
    /\ UNCHANGED <<srStatus, csVars, poolVars>>

SR_CopySlice(items, poolOk, ub) ==
    /\ SRCanCall
    /\ SRReturns(copy_slice(sr, SizeOfU8, items, srNext, poolOk, ub))
    /\ srLast' = [op |-> "copy_slice", n |-> RLen(items)]
    /\ srOps' = srOps + 1
    /\ UNCHANGED <<csVars, poolVars>>

SR_CopyIter(items, poolOk, ub) ==
    /\ SRCanCall
    /\ SRReturns(copy_slice(sr, SizeOfU8, items, srNext, poolOk, ub))
    /\ srLast' = [op |-> "copy_iter", n |-> RLen(items)]
    /\ srOps' = srOps + 1
    /\ UNCHANGED <<csVars, poolVars>>

SR_Clear ==
    /\ SRCanCall
    /\ sr' = StableRegion_clear(sr)
    /\ srLast' = [op |-> "clear", n |-> 0]
    /\ srOps' = srOps + 1
    /\ UNCHANGED <<srNext, srStatus, csVars, poolVars>>

(***************************************************************************)
(* The ColumnStacks.  Stack 1 takes every call; stack 2 is the other stack *)
(* of clone and clone_from and takes copy, clear and drop.                 *)
(***************************************************************************)
Stacks == {1, 2}

Idle == [op |-> "idle", s |-> 0, k |-> 0]

Call(op, s, index, keep, items) ==
    [op |-> op, s |-> s, index |-> index, keep |-> keep, items |-> items]

Track(era, copied) == [era |-> era, copied |-> copied]

\* strings
StrEmpty == <<>>
StrA == <<Run("a", 1)>>
StrBB == <<Run("b", 2)>>
StrBig == <<Run("b", MMAP_SIZE)>>

Item(a, b) == [a |-> a, b |-> b]

\* the items copied
Records ==
    { Item(<<StrA>>, <<StrA, StrBB>>),
      Item(<<>>, <<StrBB>>),
      Item(<<StrEmpty>>, <<>>),
      Item(<<StrA>>, <<StrEmpty>>),
      Item(<<StrBig>>, <<StrA>>) }

\* the items handed over component by component
DestructuredRecords ==
    { Item(<<StrA>>, <<StrA, StrBB>>), Item(<<StrA>>, <<StrEmpty>>) }

\* the items reserve_items is asked to make room for
ItemRecords == { Item(<<StrA>>, <<StrA, StrBB>>), Item(<<>>, <<StrBB>>) }

RECURSIVE SeqsUpTo(_, _)
\* the sequences over S of length at most n
SeqsUpTo(S, n) ==
    IF n = 0 THEN {<<>>}
    ELSE LET shorter == SeqsUpTo(S, n - 1)
         IN shorter \cup {Append(q, x) : q \in shorter, x \in S}

CSStart ==
    /\ stacks = [s \in Stacks |-> IF s = 1 THEN ColumnStack_default ELSE NoStack]
    /\ pc = Idle
    /\ status = "ok"
    /\ nextId = 1
    /\ dtor = 0
    /\ last = Call("default", 1, 0, {}, <<>>)
    /\ ops = 0
    /\ track = [s \in Stacks |-> Track(IF s = 1 THEN "default" ELSE "other", <<>>)]

CanCall(s) ==
    /\ status = "ok" /\ pc = Idle /\ ops < MaxOps
    /\ stacks[s].live

\* the state after a call on stack s that gave c = [stack, status, next, dropped]
Returns(s, c) ==
    /\ stacks' = [stacks EXCEPT ![s] = c.stack]
    /\ status' = c.status
    /\ nextId' = c.next
    /\ dtor' = dtor + c.dropped

\* the state after a reserve on stack s that gave r = [stack, next]
Reserved(s, r) ==
    /\ stacks' = [stacks EXCEPT ![s] = r.stack]
    /\ nextId' = r.next

\* a stack under construction is dropped when the call building it unwinds
Unwound(c) == IF c.status = "ok" THEN c ELSE [c EXCEPT !.stack = NoStack]

\* ColumnStack::default()
New(s) ==
    /\ status = "ok" /\ pc = Idle
    /\ ~stacks[s].live
    /\ stacks' = [stacks EXCEPT ![s] = ColumnStack_default]
    /\ track' = [track EXCEPT ![s] = Track("default", <<>>)]
    /\ last' = Call("default", s, 0, {}, <<>>)
    /\ UNCHANGED <<pc, status, nextId, dtor, ops, srVars, poolVars>>

Copy(s, item, poolOk, ub) ==
    /\ CanCall(s)
    /\ Returns(s, ColumnStack_copy(stacks[s], item, nextId, poolOk, ub))
    /\ track' = [track EXCEPT ![s].copied = Append(@, item)]
    /\ last' = Call("copy", s, 0, {}, <<item>>)
    /\ ops' = ops + 1
    /\ UNCHANGED <<pc, srVars, poolVars>>

CopyDestructured(s, item, poolOk, ub) ==
    /\ CanCall(s)
    /\ Returns(s, ColumnStack_copy_destructured(stacks[s], item.a, item.b,
                                                 nextId, poolOk, ub))
    /\ track' = [track EXCEPT ![s].copied = Append(@, item)]
    /\ last' = Call("copy_destructured", s, 0, {}, <<item>>)
    /\ ops' = ops + 1
    /\ UNCHANGED <<pc, srVars, poolVars>>

ReserveItems(s, items, poolOk) ==
    /\ CanCall(s)
    /\ Reserved(s, ColumnStack_reserve_items(stacks[s], items, nextId, poolOk))
    /\ last' = Call("reserve_items", s, 0, {}, items)
    /\ ops' = ops + 1
    /\ UNCHANGED <<pc, status, dtor, track, srVars, poolVars>>

\* stacks[s].reserve_regions(others.iter()), others a sequence of stack names
ReserveRegions(s, others, poolOk) ==
    /\ CanCall(s)
    /\ \A i \in 1 .. Len(others) : stacks[others[i]].live
    /\ Reserved(s, ColumnStack_reserve_regions(stacks[s],
                      [i \in 1 .. Len(others) |-> stacks[others[i]]], nextId, poolOk))
    /\ last' = Call("reserve_regions", s, 0, {}, others)
    /\ ops' = ops + 1
    /\ UNCHANGED <<pc, status, dtor, track, srVars, poolVars>>

RetainFrom(s, index, keep) ==
    /\ CanCall(s)
    /\ stacks' = [stacks EXCEPT ![s] = ColumnStack_retain_from(stacks[s], index, keep)]
    /\ track' = [track EXCEPT ![s] = Track("other", <<>>)]
    /\ last' = Call("retain_from", s, index, keep, <<>>)
    /\ ops' = ops + 1
    /\ UNCHANGED <<pc, status, nextId, dtor, srVars, poolVars>>

\* ColumnStack::clear is entered and takes its first step
Clear(s) ==
    /\ CanCall(s)
    /\ stacks' = [stacks EXCEPT ![s] = ClearStep(stacks[s], clear_steps[1])]
    /\ pc' = [op |-> "clear", s |-> s, k |-> 2]
    /\ track' = [track EXCEPT ![s] = Track("cleared", <<>>)]
    /\ last' = Call("clear", s, 0, {}, <<>>)
    /\ ops' = ops + 1
    /\ UNCHANGED <<status, nextId, dtor, srVars, poolVars>>

\* Drop for ColumnStack is entered: self.clear() takes its first step.  A
\* stack is dropped by its owner, or by the unwinding of a panic.
Drop(s) ==
    /\ pc = Idle
    /\ stacks[s].live
    /\ \/ status = "ok" /\ ops < MaxOps
       \/ status = "panic"
    /\ stacks' = [stacks EXCEPT ![s] = ClearStep(stacks[s], clear_steps[1])]
    /\ pc' = [op |-> "drop", s |-> s, k |-> 2]
    /\ track' = [track EXCEPT ![s] = Track("other", <<>>)]
    /\ last' = Call("drop", s, 0, {}, <<>>)
    /\ ops' = IF status = "ok" THEN ops + 1 ELSE ops
    /\ UNCHANGED <<status, nextId, dtor, srVars, poolVars>>

\* the next step of the clear that is running
ClearContinue ==
    /\ pc.op \in {"clear", "drop"}
    /\ pc.k <= Len(clear_steps)
    /\ stacks' = [stacks EXCEPT ![pc.s] = ClearStep(stacks[pc.s], clear_steps[pc.k])]
    /\ pc' = IF pc.k = Len(clear_steps) /\ pc.op = "clear"
             THEN Idle ELSE [pc EXCEPT !.k = pc.k + 1]
    /\ UNCHANGED <<status, nextId, dtor, last, ops, track, srVars, poolVars>>

\* after drop's clear, the fields are dropped: the surface Vec<T> runs the
\* destructor of every element it still holds and frees its buffer; the
\* regions free theirs without touching elements (memory::Region::drop)
DropFields ==
    /\ pc.op = "drop"
    /\ pc.k > Len(clear_steps)
    /\ dtor' = dtor + Len(stacks[pc.s].local)
    /\ stacks' = [stacks EXCEPT ![pc.s] = NoStack]
    /\ pc' = Idle
    /\ UNCHANGED <<status, nextId, last, ops, track, srVars, poolVars>>

\* stacks[s].clone_from(&stacks[source])
CloneFrom(s, source, poolOk, ub) ==
    /\ CanCall(s)
    /\ stacks[source].live
    /\ Returns(s, ColumnStack_clone_from(stacks[s], stacks[source], nextId, poolOk, ub))
    /\ track' = [track EXCEPT ![s] = Track("other", <<>>)]
    /\ last' = Call("clone_from", s, source, {}, <<>>)
    /\ ops' = ops + 1
    /\ UNCHANGED <<pc, srVars, poolVars>>

\* stacks[target] = stacks[source].clone(); a clone that unwinds drops the
\* stack it was building
Clone(target, source, poolOk, ub) ==
    /\ CanCall(source)
    /\ ~stacks[target].live
    /\ Returns(target, Unwound(ColumnStack_clone(stacks[source], nextId, poolOk, ub)))
    /\ track' = [track EXCEPT ![target] = Track("other", <<>>)]
    /\ last' = Call("clone", target, source, {}, <<>>)
    /\ ops' = ops + 1
    /\ UNCHANGED <<pc, srVars, poolVars>>

(***************************************************************************)
(* The pool of mapped chunks: GlobalStealer, ThreadLocalStealer and        *)
(* LocalSizeClass over crossbeam_deque's Injector, Worker and Stealer.     *)
(*   Mem(ptr, len)      the chunk of len bytes at address ptr              *)
(*   Span(ptr, len, n)  n chunks of len bytes each, one behind the other   *)
(* An injector queue is a sequence of spans and a worker queue a sequence  *)
(* of chunks, the oldest first.  Every operation of a queue is atomic.     *)
(***************************************************************************)
Threads == {1, 2}

Mem(ptr, length) == [ptr |-> ptr, len |-> length]

Span(ptr, length, n) == [ptr |-> ptr, len |-> length, n |-> n]

NoSpan == Span(0, 0, 0)

RECURSIVE TrailingZeros(_)
\* usize::trailing_zeros of x > 0
TrailingZeros(x) == IF x % 2 = 1 THEN 0 ELSE 1 + TrailingZeros(x \div 2)

\* new_mmap: byte_len, after next_power_of_two
mmap_byte_len(size, count) == NextPowerOfTwo(Min(PAGE_SIZE, size * count))

\* new_mmap: size_class
mmap_size_class(size, count) == TrailingZeros(mmap_byte_len(size, count))

\* ThreadLocalStealer::push: size_class
push_size_class(mem) == TrailingZeros(NextPowerOfTwo(mem.len))

\* addresses of the global allocator lie apart from every mapping
HeapAddress(n) == 0 - n

\* Injector::len
Injector_len(q) == SumSeq([i \in 1 .. Len(q) |-> q[i].n])

\* Injector::push, for every chunk of a span
Injector_push(q, span) == IF span.n = 0 THEN q ELSE Append(q, span)

\* the queue behind its oldest chunk
Injector_behind(q) ==
    IF Head(q).n = 1 THEN Tail(q)
    ELSE <<Span(Head(q).ptr + Head(q).len, Head(q).len, Head(q).n - 1)>> \o Tail(q)

RECURSIVE Injector_rest(_, _)
\* the queue behind its k oldest chunks
Injector_rest(q, k) ==
    IF k = 0 \/ q = <<>> THEN q ELSE Injector_rest(Injector_behind(q), k - 1)

RECURSIVE Injector_front(_, _)
\* the k oldest chunks of the queue
Injector_front(q, k) ==
    IF k = 0 \/ q = <<>> THEN <<>>
    ELSE <<Mem(Head(q).ptr, Head(q).len)>> \o Injector_front(Injector_behind(q), k - 1)

\* the batch taken, its first chunk returned and the others pushed to worker
batch_and_pop(taken, rest, worker) ==
    [task |-> Head(taken), injector |-> rest, worker |-> worker \o Tail(taken)]

\* Injector::steal_batch_with_limit_and_pop(&worker, limit) taking k <= limit
steal_batch_with_limit_and_pop(injector, worker, k) ==
    batch_and_pop(Injector_front(injector, k), Injector_rest(injector, k), worker)

\* Worker::push
Worker_push(q, mem) == Append(q, mem)

\* Worker::pop of a worker made by Worker::new_lifo, q not empty
Worker_pop(q) == [task |-> q[Len(q)], rest |-> SubSeq(q, 1, Len(q) - 1)]

\* a steal that hands out the chunk and leaves it in the queue
Stealer_steal_leaving(q) == [task |-> Head(q), rest |-> q]

\* Stealer::steal, q not empty
Stealer_steal(q) == [task |-> Head(q), rest |-> Tail(q)]

\* area.chunks_mut(1 << size_class) of the mapping of byte_len bytes at ptr
chunks_mut(ptr, byte_len, size_class) ==
    Span(ptr, 2 ^ size_class, byte_len \div (2 ^ size_class))

\* GlobalStealer::try_refill: byte_len
refill_byte_len(stash) ==
    (IF stash = <<>> THEN FirstMapping ELSE stash[Len(stash)]) * 2

\* GlobalStealer::new: 32 injectors, each with no mapping and no chunk
GlobalStealer_new == [c \in 1 .. NumInjectors |-> [stash |-> <<>>, injector |-> <<>>]]

\* GlobalStealer::get: INJECTOR.get_or_init(|| Self::new()); g is <<>> while
\* INJECTOR is not initialised
GlobalStealer_get(g) == IF g = <<>> THEN GlobalStealer_new ELSE g

\* ThreadLocalStealer::new: size_class: vec![]
ThreadLocalStealer_new == <<>>

\* ThreadLocalStealer::get: while self.size_class.len() <= size_class, push
\* LocalSizeClass::new
ThreadLocalStealer_classes(ws, size_class) ==
    ws \o [i \in 1 .. (size_class + 1 - Len(ws)) |-> <<>>]

\* LocalSizeClass::push
LocalSizeClass_push(worker, injector, mem) ==
    IF Len(worker) > LOCAL_BUFFER
    THEN [worker |-> worker, injector |-> Injector_push(injector, Span(mem.ptr, mem.len, 1))]
    ELSE [worker |-> Worker_push(worker, mem), injector |-> injector]

\* a sequence without its i-th element
Without(q, i) == SubSeq(q, 1, i - 1) \o SubSeq(q, i + 1, Len(q))

\* the last call completed: asked tells whether new_mmap was called, via where
\* the chunk came from, result whether the call returned or panicked
Done(op, t, count, region, asked, via, result) ==
    [op |-> op, t |-> t, capacity |-> count, region |-> region,
     asked |-> asked, via |-> via, result |-> result]

\* a thread outside new_mmap
Resting ==
    [at |-> "idle", capacity |-> 0, size_class |-> 0, round |-> 0, seen |-> {},
     pending |-> NoSpan, mapping |-> 0]

\* a thread that unwinds
Panicked == [Resting EXCEPT !.at = "panicked"]

\* the capacities new_auto is called with, in elements of one byte
Capacities == {0, 1, MMAP_SIZE, 2 * MMAP_SIZE}

\* the numbers of chunks a batch steal takes: the one it returns alone, one
\* more, and as many as the limit allows
BatchSizes == {1, 2, LOCAL_BUFFER \div 2}

\* how many chunks try_refill has pushed when another thread next runs
RefillPauses == {1, LOCAL_BUFFER \div 2}

PoolStart ==
    /\ global = <<>>
    /\ workers = [t \in Threads |-> ThreadLocalStealer_new]
    /\ owned = [t \in Threads |-> <<>>]
    /\ tpc = [t \in Threads |-> Resting]
    /\ plast = Done("none", 0, 0, new_nil, FALSE, "none", "ok")
    /\ poolOps = 0

PoolCanCall(t) == tpc[t].at = "idle" /\ poolOps < MaxPoolOps

\* THREAD_STEALERS: the threads with a stealer registered for size_class
THREAD_STEALERS(size_class) == {u \in Threads : Len(workers[u]) > size_class}

\* a thread holds the write lock of the stash of size_class
Refilling(size_class) ==
    \E u \in Threads : tpc[u].at = "refilling" /\ tpc[u].size_class = size_class

\* the bytes mapped so far; the next mapping lies behind them
MappedBytes == SumSeq([c \in 1 .. Len(global) |-> SumSeq(global[c].stash)])

\* new_mmap on thread t: the pool handed out mem; the region is built over it
Got(t, mem, via) ==
    LET region == new_auto(SizeOfU8, tpc[t].capacity, mem.ptr, TRUE)
    IN IF mem.len # region.mem
       THEN /\ tpc' = [tpc EXCEPT ![t] = Panicked]
            /\ owned' = owned
            /\ plast' = Done("new_auto", t, tpc[t].capacity, region, TRUE, via, "panic")
       ELSE /\ tpc' = [tpc EXCEPT ![t] = Resting]
            /\ owned' = [owned EXCEPT ![t] = Append(@, region)]
            /\ plast' = Done("new_auto", t, tpc[t].capacity, region, TRUE, via, "ok")

\* memory::Region::<u8>::new_auto(count) on thread t.  Without new_mmap it
\* returns at once; with it, the thread enters ThreadLocalStealer::get, which
\* creates its LocalSizeClasses up to size_class, the first of them
\* initialising INJECTOR.
Pool_NewAuto(t, count) ==
    /\ PoolCanCall(t)
    /\ poolOps' = poolOps + 1
    /\ IF SizeOfU8 * count # MMAP_SIZE
       THEN /\ owned' = [owned EXCEPT ![t] =
                   Append(@, new_auto(SizeOfU8, count, HeapAddress(poolOps + 1), FALSE))]
            /\ plast' = Done("new_auto", t, count,
                   new_auto(SizeOfU8, count, HeapAddress(poolOps + 1), FALSE),
                   FALSE, "none", "ok")
            /\ UNCHANGED <<global, workers, tpc>>
       ELSE /\ global' = GlobalStealer_get(global)
            /\ workers' = [workers EXCEPT ![t] =
                   ThreadLocalStealer_classes(@, mmap_size_class(SizeOfU8, count))]
            /\ tpc' = [tpc EXCEPT ![t] =
                   [Resting EXCEPT !.at = "pop", !.capacity = count, !.round = 1,
                                   !.size_class = mmap_size_class(SizeOfU8, count)]]
            /\ UNCHANGED <<owned, plast>>
    /\ UNCHANGED <<srVars, csVars>>

\* LocalSizeClass::get: self.worker.pop()
Pool_Pop(t) ==
    /\ tpc[t].at = "pop"
    /\ IF workers[t][tpc[t].size_class + 1] # <<>>
       THEN /\ workers' = [workers EXCEPT ![t][tpc[t].size_class + 1] = Worker_pop(@).rest]
            /\ Got(t, Worker_pop(workers[t][tpc[t].size_class + 1]).task, "pop")
       ELSE /\ tpc' = [tpc EXCEPT ![t].at = "injector"]
            /\ UNCHANGED <<workers, owned, plast>>
    /\ UNCHANGED <<global, poolOps, srVars, csVars>>

\* the state after a batch steal that gave b = [task, injector, worker]
Batched(t, b) ==
    /\ global' = [global EXCEPT ![tpc[t].size_class + 1].injector = b.injector]
    /\ workers' = [workers EXCEPT ![t][tpc[t].size_class + 1] = b.worker]
    /\ Got(t, b.task, "injector")

\* LocalSizeClass::get: self.injector.steal_batch_with_limit_and_pop(
\* &self.worker, LOCAL_BUFFER / 2), taking k chunks
Pool_StealBatch(t, k) ==
    /\ tpc[t].at = "injector"
    /\ k <= Injector_len(global[tpc[t].size_class + 1].injector)
    /\ Batched(t, steal_batch_with_limit_and_pop(
                      global[tpc[t].size_class + 1].injector,
                      workers[t][tpc[t].size_class + 1], k))
    /\ UNCHANGED <<poolOps, srVars, csVars>>

\* the batch steal finds the injector empty: the thread turns to the
\* stealers of THREAD_STEALERS
Pool_InjectorEmpty(t) ==
    /\ tpc[t].at = "injector"
    /\ global[tpc[t].size_class + 1].injector = <<>>
    /\ tpc' = [tpc EXCEPT ![t].at = "threads", ![t].seen = {}]
    /\ UNCHANGED <<global, workers, owned, plast, poolOps, srVars, csVars>>

\* LocalSizeClass::get: Stealer::steal on the queue of thread u
Pool_StealThread(t, u) ==
    /\ tpc[t].at = "threads"
    /\ u \in THREAD_STEALERS(tpc[t].size_class) \ tpc[t].seen
    /\ IF workers[u][tpc[t].size_class + 1] # <<>>
       THEN /\ workers' = [workers EXCEPT ![u][tpc[t].size_class + 1] = Stealer_steal(@).rest]
            /\ Got(t, Stealer_steal(workers[u][tpc[t].size_class + 1]).task, "thread")
       ELSE /\ tpc' = [tpc EXCEPT ![t].seen = @ \cup {u}]
            /\ UNCHANGED <<workers, owned, plast>>
    /\ UNCHANGED <<global, poolOps, srVars, csVars>>

\* every stealer was empty: get returns None.  get_with_refill then refills;
\* after the refill, new_mmap returns None and new_auto falls back to the heap
Pool_ScanDone(t) ==
    /\ tpc[t].at = "threads"
    /\ THREAD_STEALERS(tpc[t].size_class) \subseteq tpc[t].seen
    /\ IF tpc[t].round = 1
       THEN /\ tpc' = [tpc EXCEPT ![t].at = "refill", ![t].seen = {}]
            /\ UNCHANGED <<owned, plast>>
       ELSE /\ tpc' = [tpc EXCEPT ![t] = Resting]
            /\ owned' = [owned EXCEPT ![t] =
                   Append(@, new_auto(SizeOfU8, tpc[t].capacity, HeapAddress(poolOps), FALSE))]
            /\ plast' = Done("new_auto", t, tpc[t].capacity,
                   new_auto(SizeOfU8, tpc[t].capacity, HeapAddress(poolOps), FALSE),
                   TRUE, "none", "ok")
    /\ UNCHANGED <<global, workers, poolOps, srVars, csVars>>

\* the state after try_refill mapped area and pushed its first chunks
Refilled(t, area, first) ==
    /\ global' = [global EXCEPT ![tpc[t].size_class + 1].injector =
           Injector_push(@, Span(area.ptr, area.len, first))]
    /\ tpc' = [tpc EXCEPT ![t].at = "refilling",
                          ![t].pending = Span(area.ptr + first * area.len, area.len,
                                              area.n - first),
                          ![t].mapping = area.len * area.n]

\* GlobalStealer::try_refill: takes the lock of the stash, maps an area twice
\* as long as the last and pushes its first chunks to the injector
Pool_RefillStart(t, first) ==
    /\ tpc[t].at = "refill"
    /\ ~Refilling(tpc[t].size_class)
    /\ Refilled(t, chunks_mut(PAGE_SIZE + MappedBytes,
                              refill_byte_len(global[tpc[t].size_class + 1].stash),
                              tpc[t].size_class),
                first)
    /\ UNCHANGED <<workers, owned, plast, poolOps, srVars, csVars>>

\* try_refill pushes the other chunks, stash.push(mmap); the thread calls
\* get again
Pool_RefillFinish(t) ==
    /\ tpc[t].at = "refilling"
    /\ global' = [global EXCEPT
           ![tpc[t].size_class + 1].injector = Injector_push(@, tpc[t].pending),
           ![tpc[t].size_class + 1].stash = Append(@, tpc[t].mapping)]
    /\ tpc' = [tpc EXCEPT ![t].at = "pop", ![t].round = 2,
                          ![t].pending = NoSpan, ![t].mapping = 0]
    /\ UNCHANGED <<workers, owned, plast, poolOps, srVars, csVars>>

\* the state after LocalSizeClass::push gave p = [worker, injector]
Pushed_back(t, size_class, p) ==
    /\ workers' = [workers EXCEPT ![t][size_class + 1] = p.worker]
    /\ global' = [global EXCEPT ![size_class + 1].injector = p.injector]

\* Drop for memory::Region on thread t, of the i-th region it holds; for an
\* MMap region, with_stealer(|s| s.push(mem)), which indexes
\* self.size_class[size_class]
Pool_DropRegion(t, i) ==
    /\ PoolCanCall(t)
    /\ i <= Len(owned[t])
    /\ owned' = [owned EXCEPT ![t] = Without(@, i)]
    /\ poolOps' = poolOps + 1
    /\ IF owned[t][i].kind # "MMap"
       THEN /\ plast' = Done("drop", t, 0, owned[t][i], FALSE, "none", "ok")
            /\ UNCHANGED <<global, workers, tpc>>
       ELSE IF push_size_class(Mem(owned[t][i].id, owned[t][i].mem)) >= Len(workers[t])
       THEN /\ tpc' = [tpc EXCEPT ![t] = Panicked]
            /\ plast' = Done("drop", t, 0, owned[t][i], FALSE, "none", "panic")
            /\ UNCHANGED <<global, workers>>
       ELSE /\ Pushed_back(t, push_size_class(Mem(owned[t][i].id, owned[t][i].mem)),
                  LocalSizeClass_push(
                      workers[t][push_size_class(Mem(owned[t][i].id, owned[t][i].mem)) + 1],
                      global[push_size_class(Mem(owned[t][i].id, owned[t][i].mem)) + 1].injector,
                      Mem(owned[t][i].id, owned[t][i].mem)))
            /\ plast' = Done("drop", t, 0, owned[t][i], FALSE, "none", "ok")
            /\ UNCHANGED tpc
    /\ UNCHANGED <<srVars, csVars>>

\* thread t moves the i-th region it holds to thread u (Region<T>: Send)
Pool_Send(t, u, i) ==
    /\ PoolCanCall(t)
    /\ u # t
    /\ tpc[u].at # "panicked"
    /\ i <= Len(owned[t])
    /\ owned' = [owned EXCEPT ![t] = Without(@, i), ![u] = Append(@, owned[t][i])]
    /\ plast' = Done("send", u, 0, owned[t][i], FALSE, "none", "ok")
    /\ poolOps' = poolOps + 1
    /\ UNCHANGED <<global, workers, tpc, srVars, csVars>>

\* thread t ends: Drop for ThreadLocalStealer removes its stealers from
\* THREAD_STEALERS and its workers are dropped with what they queue; the
\* name t then stands for a thread that starts
Pool_ThreadExit(t) ==
    /\ PoolCanCall(t)
    /\ owned[t] = <<>>
    /\ workers[t] # ThreadLocalStealer_new
    /\ workers' = [workers EXCEPT ![t] = ThreadLocalStealer_new]
    /\ plast' = Done("exit", t, 0, new_nil, FALSE, "none", "ok")
    /\ poolOps' = poolOps + 1
    /\ UNCHANGED <<global, owned, tpc, srVars, csVars>>

(***************************************************************************)
(* Specifications.  Spec drives the ColumnStacks, SpecSR one StableRegion  *)
(* and SpecPool the pool; each leaves the others' state as constructed.    *)
(***************************************************************************)
Init == CSStart /\ SRStart /\ PoolStart

Next ==
    \/ New(2)
    \/ New(1)
    \/ \E s \in Stacks, item \in Records, poolOk \in BOOLEAN, ub \in UBOutcomes :
          Copy(s, item, poolOk, ub)
    \/ \E item \in DestructuredRecords, poolOk \in BOOLEAN, ub \in UBOutcomes :
          CopyDestructured(1, item, poolOk, ub)
    \/ \E items \in SeqsUpTo(ItemRecords, MaxItems), poolOk \in BOOLEAN :
          ReserveItems(1, items, poolOk)
    \/ \E poolOk \in BOOLEAN : ReserveRegions(1, <<2>>, poolOk)
    \/ \E index \in 0 .. Len(stacks[1].local) :
          \E keep \in SUBSET (index + 1 .. Len(stacks[1].local)) :
             RetainFrom(1, index, keep)
    \/ \E s \in Stacks : Clear(s)
    \/ \E s \in Stacks : Drop(s)
    \/ ClearContinue
    \/ DropFields
    \/ \E poolOk \in BOOLEAN, ub \in UBOutcomes : CloneFrom(1, 2, poolOk, ub)
    \/ \E poolOk \in BOOLEAN, ub \in UBOutcomes : Clone(2, 1, poolOk, ub)

Spec == Init /\ [][Next]_vars

SRInit == SRStart /\ CSStart /\ PoolStart

SRNext ==
    \/ \E l \in Limits : SR_WithLimit(l)
    \/ \E n \in Counts, poolOk \in BOOLEAN : SR_WithCapacity(n, poolOk)
    \/ \E n \in Counts, poolOk \in BOOLEAN : SR_Reserve(n, poolOk)
    \/ \E items \in Payloads, poolOk \in BOOLEAN, ub \in UBOutcomes :
          SR_CopySlice(items, poolOk, ub)
    \/ \E items \in Payloads, poolOk \in BOOLEAN, ub \in UBOutcomes :
          SR_CopyIter(items, poolOk, ub)
    \/ SR_Clear

SpecSR == SRInit /\ [][SRNext]_vars

PoolInit == PoolStart /\ CSStart /\ SRStart

PoolNext ==
    \/ \E t \in Threads, count \in Capacities : Pool_NewAuto(t, count)
    \/ \E t \in Threads : Pool_Pop(t)
    \/ \E t \in Threads, k \in BatchSizes : Pool_StealBatch(t, k)
    \/ \E t \in Threads : Pool_InjectorEmpty(t)
    \/ \E t \in Threads, u \in Threads : Pool_StealThread(t, u)
    \/ \E t \in Threads : Pool_ScanDone(t)
    \/ \E t \in Threads, first \in RefillPauses : Pool_RefillStart(t, first)
    \/ \E t \in Threads : Pool_RefillFinish(t)
    \/ \E t \in Threads, i \in 1 .. MaxPoolOps : Pool_DropRegion(t, i)
    \/ \E t \in Threads, u \in Threads, i \in 1 .. MaxPoolOps : Pool_Send(t, u, i)
    \/ \E t \in Threads : Pool_ThreadExit(t)

SpecPool == PoolInit /\ [][PoolNext]_vars

(***************************************************************************)
(* Claims about StableRegion, checked under SpecSR.                        *)
(***************************************************************************)
\* b, a buffer holding elements, is still at its address in region t, with
\* its capacity and with its elements where they were
KeptIn(b, t) ==
    \E i \in 1 .. Len(Buffers(t)) :
        LET c == Buffers(t)[i]
        IN /\ c.id = b.id
           /\ c.cap = b.cap
           /\ Normalize(Slice(c.data, 0, len(b))) = b.data

\* no buffer holds more than the allocation behind it has room for
WithinAllocation(t, size) ==
    \A i \in 1 .. Len(Buffers(t)) :
        LET c == Buffers(t)[i]
        IN /\ len(c) <= c.cap
           /\ c.kind = "MMap" => size * len(c) <= c.mem /\ size * c.cap <= c.mem

\* C2: across copy_iter, copy_slice and reserve (no clear), every buffer that
\* holds elements stays where it is, with its capacity and its elements in
\* place, and no write carries a buffer past the allocation it was given.
C2_ElementsStayInPlace ==
    [][ srLast'.op # "clear" =>
          /\ \A i \in 1 .. Len(Buffers(sr)) :
                len(Buffers(sr)[i]) > 0 => KeptIn(Buffers(sr)[i], sr')
          /\ WithinAllocation(sr', SizeOfU8) ]_vars

\* C4: after reserve(n) or with_capacity(n) the active buffer has at least n
\* unused slots, whichever backing the new buffer received.
C4_ReserveLeavesRoom ==
    srLast.op \in {"reserve", "with_capacity"} =>
        capacity(sr.local) - len(sr.local) >= srLast.n

\* C7: copy_iter and copy_slice complete without panic for every input, the
\* empty payload and the never-allocated region included.
C7_CopyNeverPanics ==
    srLast.op \in {"copy_iter", "copy_slice"} => srStatus # "panic"

(***************************************************************************)
(* Claims about ColumnStack, checked under Spec.                           *)
(***************************************************************************)
\* C1: a stack built by default() and then only copied into shows, in
\* insertion order, exactly the records handed to copy.
C1_ViewIsCopiedRecords ==
    \A s \in Stacks :
        (stacks[s].live /\ pc = Idle /\ track[s].era = "default")
            => View(stacks[s]) = track[s].copied

\* C3: whatever calls are made on a stack, and through its drop, no
\* destructor of T runs on a replica.
C3_NoDestructorOnReplicas == dtor = 0

\* s is inside clear or drop in one of the two states of a step
Clearing(s) ==
    \/ pc.op \in {"clear", "drop"} /\ pc.s = s
    \/ pc'.op \in {"clear", "drop"} /\ pc'.s = s

\* C5: a step of clear or drop that resets or frees a buffer of the inner
\* region is taken only when the surface vector already has length 0, and
\* leaves it at length 0.
C5_SurfaceResetFirst ==
    [][ \A s \in Stacks :
          (Clearing(s) /\ stacks'[s].inner # stacks[s].inner)
              => stacks[s].local = <<>> /\ stacks'[s].local = <<>> ]_vars

\* C5 witness: in the middle of a clear or drop, the surface is empty, the
\* first inner region has been reset and a later one still holds bytes.
C5_Witness ==
    /\ pc.op \in {"clear", "drop"}
    /\ pc.k = 3
    /\ stacks[pc.s].local = <<>>
    /\ len(stacks[pc.s].inner.regionB.inner.local) > 0

\* the elements of v after the first i whose position is in keep, in order
Kept(v, i, keep) ==
    LET positions == SelectSeq([k \in 1 .. Len(v) |-> k],
                               LAMBDA k : k > i /\ k \in keep)
    IN [j \in 1 .. Len(positions) |-> v[positions[j]]]

\* C6: retain_from(i, p) leaves the first i elements of the view as they
\* were, followed by the later elements p accepted, in their order; with i
\* at or past the length the stack is unchanged; and a clear that completes
\* leaves the view empty.
C6_RetainFromKeepsAccepted ==
    [][ /\ (last'.op = "retain_from" /\ ops' = ops + 1) =>
              /\ View(stacks'[last'.s]) =
                    SubSeq(View(stacks[last'.s]), 1, last'.index)
                       \o Kept(View(stacks[last'.s]), last'.index, last'.keep)
              /\ last'.index >= Len(stacks[last'.s].local) => stacks' = stacks
        /\ (pc.op = "clear" /\ pc' = Idle) => View(stacks'[pc.s]) = <<>> ]_vars

\* C6 witness: of two elements, retain_from(0, p) dropped the first and kept
\* the second.
C6_Witness ==
    /\ last.op = "retain_from"
    /\ last.index = 0
    /\ last.keep = {2}
    /\ Len(stacks[last.s].local) = 1
    /\ View(stacks[last.s])[1] \in Records

\* the surface buffer and the active buffers of t are those of s, and
\* nothing was retired to a stash
SameAllocations(s, t) ==
    /\ t.cap = s.cap
    /\ t.inner.regionA.local.id = s.inner.regionA.local.id
    /\ t.inner.regionA.stash = s.inner.regionA.stash
    /\ t.inner.regionB.region.local.id = s.inner.regionB.region.local.id
    /\ t.inner.regionB.region.stash = s.inner.regionB.region.stash
    /\ t.inner.regionB.inner.local.id = s.inner.regionB.inner.local.id
    /\ t.inner.regionB.inner.stash = s.inner.regionB.inner.stash

\* C8: right after reserve_items(items), copying every record of items
\* allocates nothing: the surface vector keeps its capacity and every
\* StableRegion keeps its active buffer and its stash.
C8_ReserveItemsSuffices ==
    (last.op = "reserve_items" /\ status = "ok" /\ pc = Idle) =>
        \A poolOk \in BOOLEAN, ub \in UBOutcomes :
            SameAllocations(stacks[last.s],
                CopyAll(stacks[last.s], last.items, nextId, poolOk, ub).stack)

\* C9: a cleared stack clears to itself, and shows exactly the records
\* copied into it since the clear, in insertion order.
C9_ClearedStackReusable ==
    \A s \in Stacks :
        (stacks[s].live /\ pc = Idle /\ track[s].era = "cleared") =>
            /\ View(stacks[s]) = track[s].copied
            /\ track[s].copied = <<>> => ColumnStack_clear(stacks[s]) = stacks[s]

\* C10: clone and clone_from leave the target with the view of the source,
\* element by element, and leave the source as it was.
C10_CloneEqualsSource ==
    [][ (last'.op \in {"clone", "clone_from"} /\ ops' = ops + 1) =>
            /\ View(stacks'[last'.s]) = View(stacks[last'.index])
            /\ stacks'[last'.index] = stacks[last'.index] ]_vars

\* the address ptr lies past everything region old held: what is there was
\* written after old
WrittenSince(old, ptr) ==
    \A i \in 1 .. Len(Buffers(old)) :
        Buffers(old)[i].id = ptr.id => ptr.off >= len(Buffers(old)[i])

\* rep is a String replica of src in region new, written since old
ExactString(old, new, rep, src) ==
    /\ rep.len = RLen(src)
    /\ rep.cap = rep.len
    /\ BufferAt(new, rep.ptr, rep.len) # <<>>
    /\ ReadString(new, rep) = src
    /\ WrittenSince(old, rep.ptr)

\* the String replicas the Vec replica rep points at in region new
ElementsOf(new, rep) ==
    IF BufferAt(new, rep.ptr, rep.len) = <<>> THEN <<>>
    ELSE Expand(Slice(BufferAt(new, rep.ptr, rep.len)[1].data, rep.ptr.off, rep.len))

\* rep is a Vec<String> replica of src in the VecRegion new, written since old
ExactVec(old, new, rep, src) ==
    /\ rep.len = Len(src)
    /\ rep.cap = rep.len
    /\ BufferAt(new.region, rep.ptr, rep.len) # <<>>
    /\ WrittenSince(old.region, rep.ptr)
    /\ Len(ElementsOf(new.region, rep)) = Len(src)
    /\ \A i \in 1 .. Len(src) :
          ExactString(old.inner, new.inner, ElementsOf(new.region, rep)[i], src[i])

\* the replica the last copy pushed on stack t
Pushed(t) == t.local[Len(t.local)]

\* C11: every String and Vec replica a copy produces has len = cap = the
\* length of its source, and points at one run of that many elements, equal
\* to the source, that this copy wrote inside one arena buffer.
C11_ReplicaSizedToPayload ==
    [][ (last'.op \in {"copy", "copy_destructured"} /\ ops' = ops + 1
            /\ status' = "ok") =>
          /\ Len(stacks'[last'.s].local) = Len(stacks[last'.s].local) + 1
          /\ last'.items[1].a # <<>> =>
                ExactString(stacks[last'.s].inner.regionA,
                            stacks'[last'.s].inner.regionA,
                            Pushed(stacks'[last'.s]).a[1], last'.items[1].a[1])
          /\ (last'.items[1].a = <<>>) = (Pushed(stacks'[last'.s]).a = <<>>)
          /\ ExactVec(stacks[last'.s].inner.regionB,
                      stacks'[last'.s].inner.regionB,
                      Pushed(stacks'[last'.s]).b, last'.items[1].b) ]_vars

\* C11 witness: a copy of (Some("a"), ["a", "bb"]) returned and pushed its
\* replica.
C11_Witness ==
    /\ last.op = "copy"
    /\ status = "ok"
    /\ last.items = <<Item(<<StrA>>, <<StrA, StrBB>>)>>
    /\ Pushed(stacks[last.s]).b.len = 2

\* the addresses of the buffers of a StableRegion
IdsOf(t) == {Buffers(t)[i].id : i \in 1 .. Len(Buffers(t))}

\* the addresses of every arena buffer of a stack
BufferIds(stack) ==
    IdsOf(stack.inner.regionA) \cup IdsOf(stack.inner.regionB.region)
        \cup IdsOf(stack.inner.regionB.inner)

\* the replica rep of a tuple points, for every payload it holds, into the
\* buffers of the regions inner
PointsInto(inner, rep) ==
    /\ \A i \in 1 .. Len(rep.a) :
          rep.a[i].len > 0 => BufferAt(inner.regionA, rep.a[i].ptr, rep.a[i].len) # <<>>
    /\ rep.b.len > 0 =>
          /\ BufferAt(inner.regionB.region, rep.b.ptr, rep.b.len) # <<>>
          /\ \A i \in 1 .. Len(ElementsOf(inner.regionB.region, rep.b)) :
                LET e == ElementsOf(inner.regionB.region, rep.b)[i]
                IN e.len > 0 => BufferAt(inner.regionB.inner, e.ptr, e.len) # <<>>

\* the stack a step acts on
Acting == IF pc.op \in {"clear", "drop"} THEN pc.s ELSE last'.s

\* C12: the two stacks never hold a buffer in common; after a clone or a
\* clone_from that returns, every replica of the target points into the
\* target's own regions; and a step on one stack (a copy, a clear, a drop,
\* a clone into it) leaves the other stack, view and buffers, as it was.
C12_NoSharedBuffers ==
    [][ /\ BufferIds(stacks'[1]) \cap BufferIds(stacks'[2]) = {}
        /\ (last'.op \in {"clone", "clone_from"} /\ ops' = ops + 1 /\ status' = "ok") =>
              \A i \in 1 .. Len(stacks'[last'.s].local) :
                  PointsInto(stacks'[last'.s].inner, stacks'[last'.s].local[i])
        /\ \A t \in Stacks : t # Acting => stacks'[t] = stacks[t] ]_vars

\* C12 witness: a clone returned, and source and clone each hold a record
\* in buffers of their own.
C12_Witness ==
    /\ last.op = "clone"
    /\ status = "ok"
    /\ Len(stacks[1].local) > 0
    /\ Len(stacks[2].local) = Len(stacks[1].local)
    /\ BufferIds(stacks[1]) # {}
    /\ BufferIds(stacks[2]) # {}

\* C13: a copy (one that does not end the process) never lowers the total
\* capacity summed_heap_size reports for the stack.
C13_CapacityNeverDecreases ==
    [][ (last'.op \in {"copy", "copy_destructured"} /\ ops' = ops + 1
            /\ status' # "abort") =>
          summed_heap_size(stacks'[last'.s])[2] >= summed_heap_size(stacks[last'.s])[2]
      ]_vars

\* C13 witness: a second copy retired a buffer of the Vec region to its
\* stash, and the stack reports more capacity than one record needs.
C13_Witness ==
    /\ last.op = "copy"
    /\ status = "ok"
    /\ Len(stacks[last.s].local) = 2
    /\ Len(stacks[last.s].inner.regionB.region.stash) = 1
    /\ summed_heap_size(stacks[last.s])[2] > summed_heap_size(stacks[last.s])[1]

\* every pair of a heap_size report has used <= capacity
UsedWithin(pairs) == \A i \in 1 .. Len(pairs) : pairs[i][1] <= pairs[i][2]

\* C14: every (used, capacity) pair heap_size reports has used <= capacity.
C14_UsedWithinCapacity ==
    \A s \in Stacks : UsedWithin(ColumnStack_heap_size(stacks[s]))

\* C14 witness: a stack holding records, with a retired buffer in a stash
\* and an active buffer filled to its capacity.
C14_Witness ==
    \E s \in Stacks :
        /\ Len(stacks[s].local) > 0
        /\ Len(stacks[s].inner.regionB.inner.stash) > 0
        /\ len(stacks[s].inner.regionB.inner.local)
              = capacity(stacks[s].inner.regionB.inner.local)

RECURSIVE ViewsOf(_)
\* every element held by the stacks named in others, stack after stack
ViewsOf(others) ==
    IF others = <<>> THEN <<>>
    ELSE View(stacks[Head(others)]) \o ViewsOf(Tail(others))

\* C15: right after reserve_regions(others), copying every element the
\* stacks of others hold allocates nothing: the surface vector keeps its
\* capacity and every StableRegion keeps its active buffer and its stash.
C15_ReserveRegionsSuffices ==
    (last.op = "reserve_regions" /\ status = "ok" /\ pc = Idle) =>
        \A poolOk \in BOOLEAN, ub \in UBOutcomes :
            SameAllocations(stacks[last.s],
                CopyAll(stacks[last.s], ViewsOf(last.items), nextId, poolOk, ub).stack)

\* the outcomes d and c of two calls on a stack of n elements are the same,
\* with one element appended when the calls return
SameOutcome(d, c, n) ==
    /\ d = c
    /\ c.status = "ok" => Len(d.stack.local) = n + 1

\* C16: in every state in which a call can be made, copy_destructured(&a, &b)
\* and copy(&(a, b)) have the same outcome and leave the same stack (surface
\* vector and every component region), with one tuple appended when they
\* return.
C16_CopyDestructuredIsCopy ==
    \A s \in Stacks :
        CanCall(s) =>
            \A item \in Records, poolOk \in BOOLEAN, ub \in UBOutcomes :
                SameOutcome(
                    ColumnStack_copy_destructured(stacks[s], item.a, item.b,
                                                  nextId, poolOk, ub),
                    ColumnStack_copy(stacks[s], item, nextId, poolOk, ub),
                    Len(stacks[s].local))

\* C16 witness: copy_destructured returned on a stack that already held a
\* record, and one more can be copied.
C16_Witness ==
    /\ last.op = "copy_destructured"
    /\ CanCall(last.s)
    /\ Len(stacks[last.s].local) = 2
    /\ Pushed(stacks[last.s]).b.len = 2

(***************************************************************************)
(* Further claims about StableRegion, checked under SpecSR.                *)
(***************************************************************************)
\* C17: a reserve(n) or with_capacity(n) that has to grow installs an active
\* buffer of capacity exactly max(n, min(limit, next_power_of_two(capacity
\* + 1))), which is at most limit when n is.
C17_GrowthRule ==
    [][ (srLast'.op \in {"reserve", "with_capacity"} /\ must_grow(sr, srLast'.n)) =>
          /\ capacity(sr'.local) =
                Max(srLast'.n, Min(sr.limit, NextPowerOfTwo(capacity(sr.local) + 1)))
          /\ srLast'.n <= sr.limit => capacity(sr'.local) <= sr.limit ]_vars

\* C18: a reserve that grows (in reserve, with_capacity or a copy) appends
\* the previous active buffer to the stash exactly when it holds an element,
\* and otherwise leaves the stash as it is; every stashed buffer holds at
\* least one element.
C18_StashHoldsRetiredBuffers ==
    [][ /\ \A i \in 1 .. Len(sr'.stash) : len(sr'.stash[i]) > 0
        /\ srLast'.op \in {"reserve", "with_capacity", "copy_iter", "copy_slice"} =>
              sr'.stash = IF must_grow(sr, srLast'.n) /\ len(sr.local) > 0
                          THEN Append(sr.stash, sr.local)
                          ELSE sr.stash ]_vars

\* C18 witness: two buffers were retired, one after the other, and a third
\* is active.
C18_Witness ==
    /\ Len(sr.stash) = 2
    /\ sr.stash[1].id < sr.stash[2].id
    /\ sr.stash[2].id < sr.local.id

\* C19: after clear() the region holds no element and no stashed buffer,
\* the active buffer is the one it was, with its capacity, and a reserve or
\* a copy of at most that many elements allocates no buffer.
C19_ClearKeepsActiveBuffer ==
    [][ srLast'.op = "clear" =>
          /\ StableRegion_len(sr') = 0
          /\ sr'.stash = <<>>
          /\ sr'.local.id = sr.local.id
          /\ capacity(sr'.local) = capacity(sr.local)
          /\ \A n \in Counts, poolOk \in BOOLEAN :
                n <= capacity(sr'.local) =>
                   /\ reserve(sr', SizeOfU8, n, srNext', poolOk) = sr'
                   /\ reserve_next(sr', n, srNext') = srNext'
          /\ \A items \in Payloads, poolOk \in BOOLEAN, ub \in UBOutcomes :
                RLen(items) <= capacity(sr'.local) =>
                   /\ copy_slice(sr', SizeOfU8, items, srNext', poolOk, ub).next = srNext'
                   /\ copy_slice(sr', SizeOfU8, items, srNext', poolOk, ub).sr.local.id
                         = sr.local.id
                   /\ copy_slice(sr', SizeOfU8, items, srNext', poolOk, ub).sr.stash = <<>>
      ]_vars

\* C19 witness: a clear left an empty region whose active buffer has room
\* for a page of bytes.
C19_Witness ==
    /\ srLast.op = "clear"
    /\ srStatus = "ok"
    /\ len(sr.local) = 0
    /\ capacity(sr.local) >= PAGE_SIZE
    /\ srOps >= 2

(***************************************************************************)
(* Further claims about ColumnStack, checked under Spec.                   *)
(***************************************************************************)
\* the StableRegions of a stack's region hierarchy
RegionsOf(stack) ==
    <<stack.inner.regionA, stack.inner.regionB.region, stack.inner.regionB.inner>>

\* C20: when clear() has returned, the view is empty and every StableRegion
\* of the region hierarchy has len() = 0 and an empty stash.
C20_ClearEmptiesEveryRegion ==
    (last.op = "clear" /\ pc = Idle) =>
        /\ View(stacks[last.s]) = <<>>
        /\ \A i \in 1 .. Len(RegionsOf(stacks[last.s])) :
              /\ StableRegion_len(RegionsOf(stacks[last.s])[i]) = 0
              /\ RegionsOf(stacks[last.s])[i].stash = <<>>

\* C20 witness: clear() has returned on a stack whose regions had allocated
\* buffers, the innermost one having retired a buffer to its stash before.
C20_Witness ==
    /\ last.op = "clear"
    /\ pc = Idle
    /\ capacity(stacks[last.s].inner.regionA.local) > 0
    /\ capacity(stacks[last.s].inner.regionB.region.local) > 0
    /\ stacks[last.s].inner.regionB.inner.stash_cap > 0

\* C21: retain_from leaves every StableRegion of the inner region as it was
\* (buffers, their lengths, len()), and the surface elements that survive
\* are the replicas they were, pointing at the arena locations they pointed
\* at before the call.
C21_RetainFromLeavesInner ==
    [][ (last'.op = "retain_from" /\ ops' = ops + 1) =>
          /\ stacks'[last'.s].inner = stacks[last'.s].inner
          /\ \A i \in 1 .. Len(RegionsOf(stacks[last'.s])) :
                StableRegion_len(RegionsOf(stacks'[last'.s])[i])
                    = StableRegion_len(RegionsOf(stacks[last'.s])[i])
          /\ stacks'[last'.s].local =
                SubSeq(stacks[last'.s].local, 1, last'.index)
                    \o Kept(stacks[last'.s].local, last'.index, last'.keep) ]_vars

\* C21 witness: retain_from dropped the first of two elements; the buffer
\* the innermost region had retired while both were copied is still in its
\* stash, holding bytes, and the survivor still reads as a record.
C21_Witness ==
    /\ last.op = "retain_from"
    /\ last.index = 0
    /\ last.keep = {2}
    /\ Len(stacks[last.s].local) = 1
    /\ Len(stacks[last.s].inner.regionB.inner.stash) > 0
    /\ len(stacks[last.s].inner.regionB.inner.stash[1]) > 0
    /\ PointsInto(stacks[last.s].inner, stacks[last.s].local[1])

\* one payload: len elements at offset off of the buffer at address id of
\* the StableRegion named r
Extent(r, rep) == [r |-> r, id |-> rep.ptr.id, off |-> rep.ptr.off, len |-> rep.len]

\* the non-empty payloads of the String replicas reps, in the region named r
StringExtents(r, reps) ==
    {Extent(r, reps[i]) : i \in {k \in 1 .. Len(reps) : reps[k].len > 0}}

\* the non-empty interior payloads of the surface element rep
Extents(inner, rep) ==
    StringExtents("regionA", rep.a)
        \cup (IF rep.b.len > 0 THEN {Extent("regionB.region", rep.b)} ELSE {})
        \cup StringExtents("regionB.inner", ElementsOf(inner.regionB.region, rep.b))

\* two payloads have a location in common
Overlap(x, y) ==
    /\ x.r = y.r
    /\ x.id = y.id
    /\ x.off < y.off + y.len
    /\ y.off < x.off + x.len

\* no payload of one set shares a location with a payload of the other
Apart(xs, ys) == \A x \in xs, y \in ys : ~Overlap(x, y)

\* the StableRegion of a stack's inner region that is named r
RegionNamed(inner, r) ==
    CASE r = "regionA" -> inner.regionA
      [] r = "regionB.region" -> inner.regionB.region
      [] r = "regionB.inner" -> inner.regionB.inner

\* the payload x lies inside the written part of one buffer of its region
Inside(inner, x) ==
    BufferAt(RegionNamed(inner, x.r), [id |-> x.id, off |-> x.off], x.len) # <<>>

\* es holds, element by element, the payloads of a surface vector: each lies
\* in a buffer of inner, apart from the payloads of every other element
InPlace(inner, es) ==
    /\ \A i \in 1 .. Len(es) : \A x \in es[i] : Inside(inner, x)
    /\ \A i, j \in 1 .. Len(es) : i < j => Apart(es[i], es[j])

\* every element of the surface vector keeps its payloads inside the written
\* part of the stack's own buffers, apart from every other element's
PayloadsInPlace(stack) ==
    InPlace(stack.inner,
            <<>> \o [i \in 1 .. Len(stack.local) |->
                        Extents(stack.inner, stack.local[i])])

\* C22: in every reachable state, while the process lives, every surface
\* element's non-empty payload lies inside the written part of one buffer,
\* active or stashed, of its own stack's inner region, and the payloads of
\* distinct elements (written by distinct copy calls) have no location in
\* common.
C22_PayloadsInsideOwnBuffers ==
    [](status # "abort" => \A s \in Stacks : PayloadsInPlace(stacks[s]))

\* C22 witness: three copies returned; the third wrote its string behind
\* the second's in the same buffer, and the first's lies in a stashed buffer.
C22_Witness ==
    \E s \in Stacks :
        /\ status = "ok"
        /\ Len(stacks[s].local) = 3
        /\ \A i \in 1 .. 3 : Len(stacks[s].local[i].a) = 1 /\ stacks[s].local[i].a[1].len > 0
        /\ stacks[s].local[3].a[1].ptr.id = stacks[s].local[2].a[1].ptr.id
        /\ stacks[s].local[3].a[1].ptr.off > 0
        /\ Len(stacks[s].inner.regionA.stash) > 0
        /\ stacks[s].local[1].a[1].ptr.id = stacks[s].inner.regionA.stash[1].id

(***************************************************************************)
(* Claims about the pool of mapped chunks, checked under SpecPool.         *)
(***************************************************************************)
\* the chunk an MMap region is built over, as a span; no span for others
ChunkOf(region) ==
    IF region.kind = "MMap" THEN Span(region.id, region.mem, 1) ELSE NoSpan

\* the chunks queued in the injectors
InjectorSpans == Flatten([c \in 1 .. Len(global) |-> global[c].injector])

\* the chunks queued in the workers of thread t
WorkerSpans(t) ==
    Flatten([c \in 1 .. Len(workers[t]) |->
        [j \in 1 .. Len(workers[t][c]) |->
            Span(workers[t][c][j].ptr, workers[t][c][j].len, 1)]])

\* the chunks held by the live regions of thread t
HeldSpans(t) == [i \in 1 .. Len(owned[t]) |-> ChunkOf(owned[t][i])]

\* every chunk there is: queued in the pool, mapped by a refill that has yet
\* to push it, or held by a live region
Holdings ==
    InjectorSpans
        \o Flatten([t \in Threads |-> WorkerSpans(t)])
        \o [t \in Threads |-> tpc[t].pending]
        \o Flatten([t \in Threads |-> HeldSpans(t)])

\* two spans have no byte in common
Disjoint(x, y) ==
    \/ x.n = 0
    \/ y.n = 0
    \/ x.ptr + x.len * x.n <= y.ptr
    \/ y.ptr + y.len * y.n <= x.ptr

PairwiseDisjoint(h) == \A i, j \in 1 .. Len(h) : i < j => Disjoint(h[i], h[j])

\* C23: with threads allocating, dropping and sending mmap-backed regions
\* concurrently, no chunk is at two places at a time: not held by two live
\* regions, not queued twice, and not queued in the pool while a live region
\* holds it (so a held chunk is back in the pool only once its region is
\* dropped).
C23_ChunkHasOneHolder == PairwiseDisjoint(Holdings)

\* C23 witness: both threads hold a mapped region at a time, the last of
\* them over a chunk stolen from the other thread's queue, and chunks are
\* queued in the injector.
C23_Witness ==
    /\ plast.op = "new_auto"
    /\ plast.via = "thread"
    /\ \A t \in Threads : \E i \in 1 .. Len(owned[t]) : owned[t][i].kind = "MMap"
    /\ InjectorSpans # <<>>

\* mem is queued in the worker of thread t for its size class, or in the
\* injector of that size class
Obtainable(t, mem) ==
    \/ /\ push_size_class(mem) < Len(workers[t])
       /\ \E j \in 1 .. Len(workers[t][push_size_class(mem) + 1]) :
             workers[t][push_size_class(mem) + 1][j] = mem
    \/ \E j \in 1 .. Len(global[push_size_class(mem) + 1].injector) :
          ~Disjoint(global[push_size_class(mem) + 1].injector[j],
                    Span(mem.ptr, mem.len, 1))

\* C24: the drop of an mmap-backed region returns on whichever thread it
\* runs, and leaves the chunk in that thread's queue or in the injector of
\* the chunk's size class, from where a later get can take it.
C24_DropOnAnyThread ==
    (plast.op = "drop" /\ plast.region.kind = "MMap") =>
        /\ plast.result = "ok"
        /\ Obtainable(plast.t, Mem(plast.region.id, plast.region.mem))

\* C25: new_auto returns Nil for a capacity of 0 bytes, Heap for up to
\* 2 MiB, and for more MMap, or Heap when the pool handed out no chunk.
C25_NewAutoBySize ==
    (plast.op = "new_auto" /\ plast.result = "ok") =>
        /\ SizeOfU8 * plast.capacity = 0 => plast.region.kind = "Nil"
        /\ (0 < SizeOfU8 * plast.capacity /\ SizeOfU8 * plast.capacity <= MMAP_SIZE)
              => plast.region.kind = "Heap"
        /\ SizeOfU8 * plast.capacity > MMAP_SIZE =>
              \/ plast.region.kind = "MMap"
              \/ plast.region.kind = "Heap" /\ plast.asked

====
